---- MODULE Spec2Model ----
(***************************************************************************)
(* Model of src/app.js: the note parser (parseNoteToSemitone), the tuning  *)
(* resolver (parseTuning), the scale/fretboard generator                   *)
(* (generateScaleDiagram) and the state of the App component.              *)
(*                                                                         *)
(* A JavaScript string is a sequence of characters, each character a       *)
(* one-character TLA+ string.  The two non-ASCII accidentals are written   *)
(* "U+266D" (the flat sign) and "U+266F" (the sharp sign).                 *)
(***************************************************************************)
EXTENDS Integers, Sequences, FiniteSets, TLC

VARIABLES
    pc,            \* "start" before the pure function under check is applied, "done" after
    note,          \* argument of parseNoteToSemitone
    semitone,      \* its return value
    input,         \* first argument of parseTuning
    inputStrings,  \* second argument of parseTuning
    tuningResult,  \* its return value
    genArgs,       \* arguments of generateScaleDiagram
    diag,          \* its return value
    numStrings,    \* App state (useState)
    tuningNotes,   \* App state
    rootNote,      \* App state
    scaleType,     \* App state
    result,        \* App state
    error,         \* App state
    lastCall,      \* arguments of the last generateScaleDiagram call made by handleGenerate
    events         \* number of UI events handled so far

vars == <<pc, note, semitone, input, inputStrings, tuningResult, genArgs, diag,
          numStrings, tuningNotes, rootNote, scaleType, result, error, lastCall, events>>

(***************************************************************************)
(* Bounds of the model.                                                    *)
(***************************************************************************)
MaxAccidentals == 3
MaxTokens == 4
MaxEvents == 4

(***************************************************************************)
(* JavaScript values and string primitives.                                *)
(***************************************************************************)
FLAT == "U+266D"
SHARP == "U+266F"

\* The value null where a number is expected.
null == -1

\* The value null where an object, an array or a message is expected.
nullObject == [isNull |-> TRUE]

\* The value undefined read from an array past its end, as a note.
undefined == <<"undefined">>

WhiteSpace == {" ", "\t"}

lowerCaseLetters ==
    <<"a", "b", "c", "d", "e", "f", "g", "h", "i", "j", "k", "l", "m",
      "n", "o", "p", "q", "r", "s", "t", "u", "v", "w", "x", "y", "z">>

upperCaseLetters ==
    <<"A", "B", "C", "D", "E", "F", "G", "H", "I", "J", "K", "L", "M",
      "N", "O", "P", "Q", "R", "S", "T", "U", "V", "W", "X", "Y", "Z">>

\* String.prototype.toUpperCase
toUpperCase(s) ==
    [i \in 1..Len(s) |->
        IF \E k \in 1..26 : lowerCaseLetters[k] = s[i]
        THEN upperCaseLetters[CHOOSE k \in 1..26 : lowerCaseLetters[k] = s[i]]
        ELSE s[i]]

\* String.prototype.replace with a global one-character pattern
replace(s, from, to) ==
    [i \in 1..Len(s) |-> IF s[i] = from THEN to ELSE s[i]]

RECURSIVE trimStart(_)
trimStart(s) ==
    IF s # <<>> /\ Head(s) \in WhiteSpace THEN trimStart(Tail(s)) ELSE s

RECURSIVE trimEnd(_)
trimEnd(s) ==
    IF s # <<>> /\ s[Len(s)] \in WhiteSpace
    THEN trimEnd(SubSeq(s, 1, Len(s) - 1))
    ELSE s

\* String.prototype.trim
trim(s) == trimEnd(trimStart(s))

\* The remainder operator % of JavaScript: the sign follows the dividend.
JSRemainder(a, b) == IF a >= 0 THEN a % b ELSE -((-a) % b)

(***************************************************************************)
(* Note parser.                                                            *)
(***************************************************************************)
baseSemitoneMap == [C |-> 0, D |-> 2, E |-> 4, F |-> 5, G |-> 7, A |-> 9, B |-> 11]

\* The loop over the characters after the base letter, from (0-based) index i:
\* the running semitone, or the early "return null" on an unknown character.
RECURSIVE accidentalLoop(_, _, _)
accidentalLoop(n, i, acc) ==
    IF i >= Len(n) THEN [returned |-> FALSE, semitone |-> acc]
    ELSE LET ch == n[i + 1] IN
         IF ch = "#" THEN accidentalLoop(n, i + 1, acc + 1)
         ELSE IF ch = "B" THEN accidentalLoop(n, i + 1, acc - 1)
         ELSE [returned |-> TRUE, semitone |-> acc]

\* A reduction that keeps the sign of a negative running semitone.
wrapSemitoneNoAdd(s) == JSRemainder(s, 12)

\* The final reduction into 0..11.
wrapSemitone(s) == JSRemainder(JSRemainder(s, 12) + 12, 12)

parseNoteToSemitone(nt) ==
    IF nt = undefined \/ nt = <<>> THEN null
    ELSE LET t == trim(nt) IN
         IF Len(t) = 0 THEN null
         ELSE LET n == toUpperCase(replace(replace(t, FLAT, "b"), SHARP, "#"))
                  base == n[1]
              IN  IF base \notin DOMAIN baseSemitoneMap THEN null
                  ELSE LET loop == accidentalLoop(n, 1, baseSemitoneMap[base]) IN
                       IF loop.returned THEN null
                       ELSE wrapSemitone(loop.semitone)

(***************************************************************************)
(* Reference tables.  A note name is the sequence of its characters.       *)
(***************************************************************************)
noteNamesSharp ==
    << <<"C">>, <<"C", "#">>, <<"D">>, <<"D", "#">>, <<"E">>, <<"F">>, <<"F", "#">>, <<"G">>, <<"G", "#">>, <<"A">>, <<"A", "#">>, <<"B">> >>

naturalMinorScales ==
    0 :> << <<"C">>, <<"D">>, <<"E", "b">>, <<"F">>, <<"G">>, <<"A", "b">>, <<"B", "b">> >> @@
    1 :> << <<"C", "#">>, <<"D", "#">>, <<"E">>, <<"F", "#">>, <<"G", "#">>, <<"A">>, <<"B">> >> @@
    2 :> << <<"D">>, <<"E">>, <<"F">>, <<"G">>, <<"A">>, <<"B", "b">>, <<"C">> >> @@
    3 :> << <<"E", "b">>, <<"F">>, <<"G", "b">>, <<"A", "b">>, <<"B", "b">>, <<"C", "b">>, <<"D", "b">> >> @@
    4 :> << <<"E">>, <<"F", "#">>, <<"G">>, <<"A">>, <<"B">>, <<"C">>, <<"D">> >> @@
    5 :> << <<"F">>, <<"G">>, <<"A", "b">>, <<"B", "b">>, <<"C">>, <<"D", "b">>, <<"E", "b">> >> @@
    6 :> << <<"F", "#">>, <<"G", "#">>, <<"A">>, <<"B">>, <<"C", "#">>, <<"D">>, <<"E">> >> @@
    7 :> << <<"G">>, <<"A">>, <<"B", "b">>, <<"C">>, <<"D">>, <<"E", "b">>, <<"F">> >> @@
    8 :> << <<"A", "b">>, <<"B", "b">>, <<"C", "b">>, <<"D", "b">>, <<"E", "b">>, <<"F", "b">>, <<"G", "b">> >> @@
    9 :> << <<"A">>, <<"B">>, <<"C">>, <<"D">>, <<"E">>, <<"F">>, <<"G">> >> @@
    10 :> << <<"B", "b">>, <<"C">>, <<"D", "b">>, <<"E", "b">>, <<"F">>, <<"G", "b">>, <<"A", "b">> >> @@
    11 :> << <<"B">>, <<"C", "#">>, <<"D">>, <<"E">>, <<"F", "#">>, <<"G">>, <<"A">> >>

harmonicMinorScales ==
    0 :> << <<"C">>, <<"D">>, <<"E", "b">>, <<"F">>, <<"G">>, <<"A", "b">>, <<"B">> >> @@
    1 :> << <<"C", "#">>, <<"D", "#">>, <<"E">>, <<"F", "#">>, <<"G", "#">>, <<"A">>, <<"B", "#">> >> @@
    2 :> << <<"D">>, <<"E">>, <<"F">>, <<"G">>, <<"A">>, <<"B", "b">>, <<"C", "#">> >> @@
    3 :> << <<"E", "b">>, <<"F">>, <<"G", "b">>, <<"A", "b">>, <<"B", "b">>, <<"C", "b">>, <<"D">> >> @@
    4 :> << <<"E">>, <<"F", "#">>, <<"G">>, <<"A">>, <<"B">>, <<"C">>, <<"D", "#">> >> @@
    5 :> << <<"F">>, <<"G">>, <<"A", "b">>, <<"B", "b">>, <<"C">>, <<"D", "b">>, <<"E">> >> @@
    6 :> << <<"F", "#">>, <<"G", "#">>, <<"A">>, <<"B">>, <<"C", "#">>, <<"D">>, <<"E", "#">> >> @@
    7 :> << <<"G">>, <<"A">>, <<"B", "b">>, <<"C">>, <<"D">>, <<"E", "b">>, <<"F", "#">> >> @@
    8 :> << <<"A", "b">>, <<"B", "b">>, <<"C", "b">>, <<"D", "b">>, <<"E", "b">>, <<"F", "b">>, <<"G">> >> @@
    9 :> << <<"A">>, <<"B">>, <<"C">>, <<"D">>, <<"E">>, <<"F">>, <<"G", "#">> >> @@
    10 :> << <<"B", "b">>, <<"C">>, <<"D", "b">>, <<"E", "b">>, <<"F">>, <<"G", "b">>, <<"A">> >> @@
    11 :> << <<"B">>, <<"C", "#">>, <<"D">>, <<"E">>, <<"F", "#">>, <<"G">>, <<"A", "#">> >>

standardTunings ==
    4 :> << <<"E">>, <<"A">>, <<"D">>, <<"G">> >> @@
    5 :> << <<"B">>, <<"E">>, <<"A">>, <<"D">>, <<"G">> >> @@
    6 :> << <<"E">>, <<"A">>, <<"D">>, <<"G">>, <<"B">>, <<"E">> >> @@
    7 :> << <<"B">>, <<"E">>, <<"A">>, <<"D">>, <<"G">>, <<"B">>, <<"E">> >> @@
    8 :> << <<"F", "#">>, <<"B">>, <<"E">>, <<"A">>, <<"D">>, <<"G">>, <<"B">>, <<"E">> >>

(***************************************************************************)
(* Tuning resolver.                                                        *)
(***************************************************************************)
\* String.prototype.split(/\s+/): the pieces between maximal runs of white space.
RECURSIVE splitLoop(_, _, _, _)
splitLoop(s, i, cur, parts) ==
    IF i > Len(s) THEN Append(parts, cur)
    ELSE IF s[i] \in WhiteSpace
         THEN IF i > 1 /\ s[i - 1] \in WhiteSpace
              THEN splitLoop(s, i + 1, cur, parts)
              ELSE splitLoop(s, i + 1, <<>>, Append(parts, cur))
         ELSE splitLoop(s, i + 1, Append(cur, s[i]), parts)

split(s) == splitLoop(s, 1, <<>>, <<>>)

\* /^drop\s+/i.test(s)
isDropForm(s) ==
    /\ Len(s) >= 5
    /\ toUpperCase(SubSeq(s, 1, 4)) = <<"D", "R", "O", "P">>
    /\ s[5] \in WhiteSpace

\* t.toUpperCase().replace(/flat/g, 'b').replace(/sharp/g, '#')
normalizeToken(t) == replace(replace(toUpperCase(t), FLAT, "b"), SHARP, "#")

\* An array returned by parseTuning, as opposed to null.
tuningArray(a) == [isNull |-> FALSE, array |-> a]

\* A Drop branch that replaces the second string instead of the first.
dropTuningSecondString(trimmed, n) ==
    LET parts == split(trimmed) IN
    IF Len(parts) < 2 THEN nullObject
    ELSE IF n \notin DOMAIN standardTunings THEN nullObject
    ELSE tuningArray([standardTunings[n] EXCEPT ![2] = normalizeToken(parts[2])])

\* The branch of parseTuning for the form "Drop X".
dropTuning(trimmed, n) ==
    LET parts == split(trimmed) IN
    IF Len(parts) < 2 THEN nullObject
    ELSE IF n \notin DOMAIN standardTunings THEN nullObject
    ELSE tuningArray([standardTunings[n] EXCEPT ![1] = normalizeToken(parts[2])])

\* An explicit branch that accepts a list longer than the number of strings.
explicitTuningAtLeast(trimmed, n) ==
    LET tokens == SelectSeq(split(trimmed), LAMBDA t : t # <<>>) IN
    IF Len(tokens) < n THEN nullObject
    ELSE tuningArray([i \in 1..Len(tokens) |-> normalizeToken(tokens[i])])

\* The branch of parseTuning for an explicit list of notes.
explicitTuning(trimmed, n) ==
    LET tokens == SelectSeq(split(trimmed), LAMBDA t : t # <<>>) IN
    IF Len(tokens) # n THEN nullObject
    ELSE tuningArray([i \in 1..Len(tokens) |-> normalizeToken(tokens[i])])

parseTuning(in, n) ==
    IF in = <<>> THEN nullObject
    ELSE LET trimmed == trim(in) IN
         IF isDropForm(trimmed) THEN dropTuning(trimmed, n)
         ELSE explicitTuning(trimmed, n)

(***************************************************************************)
(* Scale/fretboard generator.                                              *)
(***************************************************************************)
fretCount == 12

\* tuningArray[s] for a 0-based index s: undefined past the end of the array.
arrayAt(a, s) == IF s + 1 \in 1..Len(a) THEN a[s + 1] ELSE undefined

\* scaleSemitones.includes(x)
includes(a, x) == \E i \in 1..Len(a) : a[i] = x

\* A row that starts at the open string (fret 0) instead of fret 1.
stringRowFromOpen(openSemitone, scaleSemitones) ==
    [fret \in 1..fretCount |->
        LET noteSemitone == JSRemainder(openSemitone + fret - 1, 12) IN
        <<noteNamesSharp[noteSemitone + 1], includes(scaleSemitones, noteSemitone)>>]

\* The row of one string: the cells of frets 1..fretCount.
stringRow(openSemitone, scaleSemitones) ==
    [fret \in 1..fretCount |->
        LET noteSemitone == JSRemainder(openSemitone + fret, 12) IN
        <<noteNamesSharp[noteSemitone + 1], includes(scaleSemitones, noteSemitone)>>]

\* A loop that skips a string whose open note does not parse.
RECURSIVE stringLoopSkipping(_, _, _, _, _)
stringLoopSkipping(n, tuning, scaleSemitones, s, fretboard) ==
    IF s >= n THEN [returned |-> FALSE, fretboard |-> fretboard]
    ELSE LET openNote == arrayAt(tuning, s)
             openSemitone == parseNoteToSemitone(openNote)
         IN  IF openSemitone = null
             THEN stringLoopSkipping(n, tuning, scaleSemitones, s + 1, fretboard)
             ELSE stringLoopSkipping(n, tuning, scaleSemitones, s + 1,
                             Append(fretboard, stringRow(openSemitone, scaleSemitones)))

\* The loop over the strings from s, with the rows pushed so far.
RECURSIVE stringLoop(_, _, _, _, _)
stringLoop(n, tuning, scaleSemitones, s, fretboard) ==
    IF s >= n THEN [returned |-> FALSE, fretboard |-> fretboard]
    ELSE LET openNote == arrayAt(tuning, s)
             openSemitone == parseNoteToSemitone(openNote)
         IN  IF openSemitone = null
             THEN [returned |-> TRUE,
                   error |-> [text |-> "Nota de afinacao invalida: ", note |-> openNote]]
             ELSE stringLoop(n, tuning, scaleSemitones, s + 1,
                             Append(fretboard, stringRow(openSemitone, scaleSemitones)))

\* The table of a scale type.
scaleTable(type) ==
    IF type = "natural" THEN naturalMinorScales ELSE harmonicMinorScales

\* A lookup that repeats the octave at the end of the scale.
scaleNotesWithOctave(type, rootSemitone) ==
    Append(scaleTable(type)[rootSemitone], scaleTable(type)[rootSemitone][1])

\* A lookup that takes the table of the other scale type.
scaleNotesOfOtherType(type, rootSemitone) ==
    (IF type = "natural" THEN harmonicMinorScales ELSE naturalMinorScales)[rootSemitone]

\* The scale of a type at a root that its table holds.
scaleNotesOf(type, rootSemitone) == scaleTable(type)[rootSemitone]

generateScaleDiagram(n, tuning, root, type) ==
    LET rootSemitone == parseNoteToSemitone(root) IN
    IF rootSemitone = null THEN [error |-> [text |-> "Tonalidade invalida."]]
    ELSE IF type \notin {"natural", "harmonic"}
         THEN [error |-> [text |-> "Tipo de escala invalido."]]
    ELSE IF rootSemitone \notin DOMAIN scaleTable(type)
         THEN [error |-> [text |-> "Escala nao encontrada."]]
    ELSE LET scaleNotes == scaleNotesOf(type, rootSemitone)
             scaleSemitones == [i \in 1..Len(scaleNotes) |->
                                   parseNoteToSemitone(scaleNotes[i])]
             loop == stringLoop(n, tuning, scaleSemitones, 0, <<>>)
         IN  IF loop.returned THEN [error |-> loop.error]
             ELSE [scale |-> scaleNotes, fretboard |-> loop.fretboard,
                   rootSemitone |-> rootSemitone, scaleSemitones |-> scaleSemitones]

(***************************************************************************)
(* The classes the App's render gives a cell of the displayed fretboard.   *)
(***************************************************************************)
isRoot(cell, res) == parseNoteToSemitone(cell[1]) = res.rootSemitone

\* A classification that tests the in-scale flag before the root.
circleClassScaleFirst(cell, res) ==
    IF cell[2] THEN "note-scale"
    ELSE IF isRoot(cell, res) THEN "note-root"
    ELSE "note-other"

circleClass(cell, res) ==
    IF isRoot(cell, res) THEN "note-root"
    ELSE IF cell[2] THEN "note-scale"
    ELSE "note-other"

(***************************************************************************)
(* State of the App component after construction (useState initial values) *)
(* and the values the variables of the pure-function checks rest at.       *)
(***************************************************************************)
InitApp ==
    /\ numStrings = 6
    /\ tuningNotes = standardTunings[6]
    /\ rootNote = <<"C">>
    /\ scaleType = "harmonic"
    /\ result = nullObject
    /\ error = nullObject
    /\ lastCall = nullObject
    /\ events = 0

appVars == <<numStrings, tuningNotes, rootNote, scaleType, result, error, lastCall, events>>
pureVars == <<pc, note, semitone, input, inputStrings, tuningResult, genArgs, diag>>

noteIdle == note = <<>> /\ semitone = null
tuningIdle == input = <<>> /\ inputStrings = 0 /\ tuningResult = nullObject
generateIdle == genArgs = nullObject /\ diag = nullObject

(***************************************************************************)
(* parseNoteToSemitone applied to bounded inputs.                          *)
(***************************************************************************)
NoteLetters == {"A", "B", "C", "D", "E", "F", "G", "a", "b", "c", "d", "e", "f", "g"}
AccidentalChars == {"#", SHARP, "b", "B", FLAT}

NoteFirstChars == NoteLetters \cup {"H", "h", "#", "$", FLAT}
NoteTailChars == AccidentalChars \cup {"$", "C", " "}
NotePads == {<<>>, <<" ">>, <<"\t", " ">>}

NoteInputs ==
    {<<>>, <<" ">>, <<" ", "\t">>} \cup
    {pad \o <<c>> \o tl :
        pad \in NotePads, c \in NoteFirstChars,
        tl \in UNION {[1..k -> NoteTailChars] : k \in 0..MaxAccidentals}}

InitNote ==
    /\ pc = "start"
    /\ note \in NoteInputs
    /\ semitone = null
    /\ tuningIdle /\ generateIdle /\ InitApp

ParseNote ==
    /\ pc = "start"
    /\ semitone' = parseNoteToSemitone(note)
    /\ pc' = "done"
    /\ UNCHANGED <<note, input, inputStrings, tuningResult, genArgs, diag>>
    /\ UNCHANGED appVars

NextNote == ParseNote

SpecNote == InitNote /\ [][NextNote]_vars

(***************************************************************************)
(* generateScaleDiagram applied to bounded inputs: every root and type on  *)
(* the standard tunings with one string retuned, and a few roots on the    *)
(* standard tunings with two strings retuned; the tuning array may be      *)
(* longer or shorter than the number of strings.                           *)
(***************************************************************************)
GenerateNotes == {<<"D", "b">>, <<"c", "#", "#">>, <<"H">>, <<>>, <<"E", "$">>}
GenerateRoots ==
    {noteNamesSharp[i] : i \in 1..12} \cup {<<"E", "b">>, <<"d", "#">>, <<"H">>, <<>>}
GenerateTypes == {"natural", "harmonic", "major"}

retuned(tuning, i, nt) == [tuning EXCEPT ![i] = nt]

OnceRetuned(tuning) ==
    {tuning} \cup {retuned(tuning, i, nt) : i \in 1..Len(tuning), nt \in GenerateNotes}

TwiceRetuned(tuning) == UNION {OnceRetuned(t) : t \in OnceRetuned(tuning)}

generateArgs(n, tuning, root, type) ==
    [numStrings |-> n, tuningArray |-> tuning, rootNote |-> root, scaleType |-> type]

GenerateInputs ==
    UNION {{generateArgs(n, t, root, type) :
                t \in OnceRetuned(standardTunings[n])
                        \cup {standardTunings[m] : m \in DOMAIN standardTunings},
                root \in GenerateRoots, type \in GenerateTypes} :
           n \in DOMAIN standardTunings}
    \cup
    UNION {{generateArgs(n, t, root, type) :
                t \in TwiceRetuned(standardTunings[n]),
                root \in {<<"C">>, <<"F", "#">>, <<"H">>}, type \in GenerateTypes} :
           n \in DOMAIN standardTunings}

InitGenerate ==
    /\ pc = "start"
    /\ genArgs \in GenerateInputs
    /\ diag = nullObject
    /\ noteIdle /\ tuningIdle /\ InitApp

Generate ==
    /\ pc = "start"
    /\ diag' = generateScaleDiagram(genArgs.numStrings, genArgs.tuningArray,
                                    genArgs.rootNote, genArgs.scaleType)
    /\ pc' = "done"
    /\ UNCHANGED <<note, semitone, input, inputStrings, tuningResult, genArgs>>
    /\ UNCHANGED appVars

NextGenerate == Generate

SpecGenerate == InitGenerate /\ [][NextGenerate]_vars

(***************************************************************************)
(* The App component: one action per event handler, each with the effect   *)
(* that React runs after it.  The values a control can send are drawn from *)
(* small sets: the number field sends any number, the selects send one of  *)
(* their options.                                                          *)
(***************************************************************************)
NumStringsInputs == {3, 4, 5, 6, 7, 8, 9}
TuningOptions == {noteNamesSharp[1], noteNamesSharp[7]}
RootOptions == {noteNamesSharp[1], noteNamesSharp[10]}
ScaleTypeOptions == {"natural", "harmonic"}

\* useEffect(..., [numStrings]): the tuning notes after the string count became n.
numStringsEffect(n, prev) ==
    IF n \in DOMAIN standardTunings THEN standardTunings[n] ELSE prev

\* onChange of the number field: setNumStrings(Number(e.target.value)), then the effect.
SetNumStrings(value) ==
    /\ events < MaxEvents
    /\ value # numStrings
    /\ numStrings' = value
    /\ tuningNotes' = numStringsEffect(value, tuningNotes)
    /\ events' = events + 1
    /\ UNCHANGED <<rootNote, scaleType, result, error, lastCall>>
    /\ UNCHANGED pureVars

handleTuningChange(index, value) ==
    /\ events < MaxEvents
    /\ index \in 0..(Len(tuningNotes) - 1)
    /\ tuningNotes' = [tuningNotes EXCEPT ![index + 1] = value]
    /\ events' = events + 1
    /\ UNCHANGED <<numStrings, rootNote, scaleType, result, error, lastCall>>
    /\ UNCHANGED pureVars

SetRootNote(value) ==
    /\ events < MaxEvents
    /\ rootNote' = value
    /\ events' = events + 1
    /\ UNCHANGED <<numStrings, tuningNotes, scaleType, result, error, lastCall>>
    /\ UNCHANGED pureVars

SetScaleType(value) ==
    /\ events < MaxEvents
    /\ scaleType' = value
    /\ events' = events + 1
    /\ UNCHANGED <<numStrings, tuningNotes, rootNote, result, error, lastCall>>
    /\ UNCHANGED pureVars

handleGenerate ==
    /\ events < MaxEvents
    /\ events' = events + 1
    /\ IF \E i \in 1..Len(tuningNotes) : parseNoteToSemitone(tuningNotes[i]) = null
       THEN LET i == CHOOSE k \in 1..Len(tuningNotes) :
                        /\ parseNoteToSemitone(tuningNotes[k]) = null
                        /\ \A j \in 1..(k - 1) : parseNoteToSemitone(tuningNotes[j]) # null
            IN  /\ error' = [text |-> "Nota de afinacao invalida: ", note |-> tuningNotes[i]]
                /\ result' = nullObject
                /\ UNCHANGED lastCall
       ELSE LET d == generateScaleDiagram(numStrings, tuningNotes, rootNote, scaleType) IN
            /\ lastCall' = [numStrings |-> numStrings, tuningArray |-> tuningNotes]
            /\ IF "error" \in DOMAIN d
               THEN error' = d.error /\ result' = nullObject
               ELSE error' = nullObject /\ result' = d
    /\ UNCHANGED <<numStrings, tuningNotes, rootNote, scaleType>>
    /\ UNCHANGED pureVars

Init ==
    /\ pc = "start"
    /\ noteIdle /\ tuningIdle /\ generateIdle
    /\ InitApp

Next ==
    \/ \E value \in NumStringsInputs : SetNumStrings(value)
    \/ \E index \in 0..8, value \in TuningOptions : handleTuningChange(index, value)
    \/ \E value \in RootOptions : SetRootNote(value)
    \/ \E value \in ScaleTypeOptions : SetScaleType(value)
    \/ handleGenerate

\* The same component when the number field only ever holds a count of 4 to 8.
NextRegistered ==
    \/ \E value \in DOMAIN standardTunings : SetNumStrings(value)
    \/ \E index \in 0..8, value \in TuningOptions : handleTuningChange(index, value)
    \/ \E value \in RootOptions : SetRootNote(value)
    \/ \E value \in ScaleTypeOptions : SetScaleType(value)
    \/ handleGenerate

SpecRegistered == Init /\ [][NextRegistered]_vars

Spec == Init /\ [][Next]_vars

(***************************************************************************)
(* Properties of the note parser, under SpecNote.                          *)
(***************************************************************************)
\* A note name: one letter A-G in either case, then accidental characters only.
IsNoteName(s) ==
    /\ Len(s) >= 1
    /\ s[1] \in NoteLetters
    /\ \A i \in 2..Len(s) : s[i] \in AccidentalChars

\* The base semitone of a letter, whatever its case.
LetterSemitone(c) ==
    CASE c \in {"C", "c"} -> 0
      [] c \in {"D", "d"} -> 2
      [] c \in {"E", "e"} -> 4
      [] c \in {"F", "f"} -> 5
      [] c \in {"G", "g"} -> 7
      [] c \in {"A", "a"} -> 9
      [] c \in {"B", "b"} -> 11

\* Base semitone + number of sharps - number of flats, before any reduction.
RunningSum(s) ==
    LetterSemitone(s[1])
        + Cardinality({i \in 2..Len(s) : s[i] \in {"#", SHARP}})
        - Cardinality({i \in 2..Len(s) : s[i] \in {"b", "B", FLAT}})

\* Floored modulo 12: the r in 0..11 with x = 12k + r.
FlooredMod12(x) == CHOOSE r \in 0..11 : \E k \in -20..20 : x = 12 * k + r

\* C2: for every note name made of a letter A-G (either case) followed by
\* accidentals, parseNoteToSemitone returns the letter's base semitone plus the
\* sharps minus the flats, reduced by floored modulo 12: a value in 0..11 even
\* when the running sum is negative or above 11, the same for enharmonic
\* spellings such as C# and Db, and independent of the case of the input.
C2_PitchClassOfNoteName ==
    (pc = "done" /\ IsNoteName(note)) =>
        /\ semitone \in 0..11
        /\ semitone = FlooredMod12(RunningSum(note))
        /\ (note \in {<<"C", "#">>, <<"D", "b">>, <<"d", "B">>, <<"c", SHARP>>} => semitone = 1)

\* A note name whose running sum is negative has been parsed into 0..11.
C2_Witness ==
    /\ pc = "done"
    /\ note = <<"c", "b", "B", FLAT>>
    /\ RunningSum(note) = -3
    /\ semitone = 9

\* C6: parseNoteToSemitone returns null exactly when the input is empty or blank
\* after trimming, or its first character is not a letter A-G in either case, or
\* some character after the first is not one of # b B and the two Unicode
\* accidentals; '', 'H' and 'C$' are invalid.
C6_NullExactlyWhenMalformed ==
    pc = "done" =>
        /\ (semitone = null) <=> ~IsNoteName(trim(note))
        /\ (note \in {<<>>, <<"H">>, <<"C", "$">>} => semitone = null)

(***************************************************************************)
(* parseTuning applied to bounded inputs: up to MaxTokens words joined by  *)
(* white space, with or without white space around them.                   *)
(***************************************************************************)
TuningWords ==
    {<<"d", "r", "o", "p">>, <<"D", "r", "O", "p">>, <<"d">>, <<"e", FLAT>>, <<"x", SHARP>>}
TuningSeparators == {<<" ">>, <<"\t", " ">>}
TuningPads == {<<<<>>, <<>>>>, <<<<" ">>, <<" ", "\t">>>>}
StringCounts == 1..9

RECURSIVE join(_, _)
join(words, sep) ==
    IF words = <<>> THEN <<>>
    ELSE IF Len(words) = 1 THEN words[1]
    ELSE words[1] \o sep \o join(Tail(words), sep)

TuningInputs ==
    {pad[1] \o join(words, sep) \o pad[2] :
        pad \in TuningPads, sep \in TuningSeparators,
        words \in UNION {[1..k -> TuningWords] : k \in 0..MaxTokens}}

InitTuning ==
    /\ pc = "start"
    /\ input \in TuningInputs
    /\ inputStrings \in StringCounts
    /\ tuningResult = nullObject
    /\ noteIdle /\ generateIdle /\ InitApp

ParseTuning ==
    /\ pc = "start"
    /\ tuningResult' = parseTuning(input, inputStrings)
    /\ pc' = "done"
    /\ UNCHANGED <<note, semitone, input, inputStrings, genArgs, diag>>
    /\ UNCHANGED appVars

NextTuning == ParseTuning

SpecTuning == InitTuning /\ [][NextTuning]_vars

(***************************************************************************)
(* Properties of the tuning resolver, under SpecTuning.                    *)
(***************************************************************************)
\* The white-space-separated tokens of a text.
RECURSIVE TokensOf(_)
TokensOf(s) ==
    IF s = <<>> THEN <<>>
    ELSE IF s[1] \in WhiteSpace THEN TokensOf(Tail(s))
    ELSE LET stop == IF \E i \in 1..Len(s) : s[i] \in WhiteSpace
                     THEN CHOOSE i \in 1..Len(s) :
                            /\ s[i] \in WhiteSpace
                            /\ \A j \in 1..(i - 1) : s[j] \notin WhiteSpace
                     ELSE Len(s) + 1
         IN  <<SubSeq(s, 1, stop - 1)>> \o TokensOf(SubSeq(s, stop, Len(s)))

\* The normalization of one character: upper case, flat sign to b, sharp sign to #.
NormalizedChar(c) ==
    IF c = FLAT THEN "b"
    ELSE IF c = SHARP THEN "#"
    ELSE IF \E k \in 1..26 : lowerCaseLetters[k] = c
         THEN upperCaseLetters[CHOOSE k \in 1..26 : lowerCaseLetters[k] = c]
         ELSE c

Normalized(t) == [i \in 1..Len(t) |-> NormalizedChar(t[i])]

\* The first token is the word drop in any letter case.
FirstTokenIsDrop(toks) ==
    /\ Len(toks) >= 1
    /\ Len(toks[1]) = 4
    /\ \A i \in 1..4 : NormalizedChar(toks[1][i]) = <<"D", "R", "O", "P">>[i]

RegisteredCounts == 4..8

C5_ExplicitForm ==
    pc = "done" =>
        LET toks == TokensOf(input) IN
        ~FirstTokenIsDrop(toks) =>
            /\ Len(toks) # inputStrings => tuningResult.isNull
            /\ Len(toks) = inputStrings =>
                  /\ ~tuningResult.isNull
                  /\ tuningResult.array = [i \in 1..Len(toks) |-> Normalized(toks[i])]

\* A list of four tokens, none of them a note name, has been returned as a tuning.
C5_Witness ==
    /\ pc = "done"
    /\ inputStrings = 4
    /\ TokensOf(input) = [i \in 1..4 |-> <<"x", SHARP>>]
    /\ ~tuningResult.isNull
    /\ tuningResult.array = [i \in 1..4 |-> <<"X", "#">>]
    /\ \A i \in 1..4 : parseNoteToSemitone(tuningResult.array[i]) = null

(***************************************************************************)
(* Properties of the generator, under SpecGenerate.                        *)
(***************************************************************************)
\* The twelve sharp-spelled names, by pitch class 0..11.
SharpName(p) ==
    << <<"C">>, <<"C", "#">>, <<"D">>, <<"D", "#">>, <<"E">>, <<"F">>,
       <<"F", "#">>, <<"G">>, <<"G", "#">>, <<"A">>, <<"A", "#">>, <<"B">> >>[p + 1]

PitchClass(nt) == parseNoteToSemitone(nt)

RootParses == PitchClass(genArgs.rootNote) # null
TypeKnown == genArgs.scaleType \in {"natural", "harmonic"}

\* The 0-based string indices below the string count whose open note does not parse.
BadStrings ==
    {s \in 0..(genArgs.numStrings - 1) :
        s >= Len(genArgs.tuningArray) \/ PitchClass(genArgs.tuningArray[s + 1]) = null}

ValidInput == RootParses /\ TypeKnown /\ BadStrings = {}

\* The pitch classes of the scale the input selects.
ScalePitchClasses ==
    LET scale == IF genArgs.scaleType = "natural"
                 THEN naturalMinorScales[PitchClass(genArgs.rootNote)]
                 ELSE harmonicMinorScales[PitchClass(genArgs.rootNote)]
    IN  {PitchClass(scale[i]) : i \in 1..Len(scale)}

\* C1: for every valid input the fretboard has exactly stringCount rows in tuning
\* order, each of exactly 12 cells for frets 1..12 (never fret 0); the cell of
\* string s and fret f is [sharp name of (pitch class of tuning[s] + f) mod 12,
\* membership of that pitch class in the scale's set]; no flat appears in a cell.
C1_FretboardCells ==
    (pc = "done" /\ ValidInput) =>
        /\ DOMAIN diag = {"scale", "fretboard", "rootSemitone", "scaleSemitones"}
        /\ Len(diag.fretboard) = genArgs.numStrings
        /\ LET scalePCs == ScalePitchClasses IN
           \A s \in 1..genArgs.numStrings :
              /\ DOMAIN diag.fretboard[s] = 1..12
              /\ LET open == PitchClass(genArgs.tuningArray[s]) IN
                 \A f \in 1..12 :
                    LET p == (open + f) % 12
                        cell == diag.fretboard[s][f]
                    IN  /\ cell = <<SharpName(p), p \in scalePCs>>
                        /\ \A i \in 1..Len(cell[1]) : cell[1][i] \notin {"b", FLAT}

\* A flat-spelled scale (E flat natural minor) has been laid on a retuned string:
\* the cell of its pitch class 3 shows the sharp name D#.
C1_Witness ==
    /\ pc = "done" /\ ValidInput
    /\ genArgs.rootNote = <<"E", "b">> /\ genArgs.scaleType = "natural"
    /\ genArgs.tuningArray[1] = <<"D", "b">>
    /\ diag.fretboard[1][2] = <<<<"D", "#">>, TRUE>>
    /\ diag.fretboard[1][12] = <<<<"C", "#">>, TRUE>>
    /\ diag.fretboard[1][3] = <<<<"E">>, FALSE>>

C7_ScaleOfSevenDistinct ==
    (pc = "done" /\ "scale" \in DOMAIN diag) =>
        /\ genArgs.scaleType = "natural" =>
              diag.scale = naturalMinorScales[PitchClass(genArgs.rootNote)]
        /\ genArgs.scaleType = "harmonic" =>
              diag.scale = harmonicMinorScales[PitchClass(genArgs.rootNote)]
        /\ (genArgs.rootNote \in {<<"D", "#">>, <<"E", "b">>, <<"d", "#">>}
                /\ genArgs.scaleType = "natural") =>
              diag.scale = << <<"E", "b">>, <<"F">>, <<"G", "b">>, <<"A", "b">>,
                              <<"B", "b">>, <<"C", "b">>, <<"D", "b">> >>
        /\ Len(diag.scale) = 7
        /\ \A i \in 1..7 : PitchClass(diag.scale[i]) \in 0..11
        /\ \A i, j \in 1..7 :
              i # j => /\ diag.scale[i] # diag.scale[j]
                       /\ PitchClass(diag.scale[i]) # PitchClass(diag.scale[j])

\* The harmonic scale of the root D# has been returned, spelled from E flat.
C7_Witness ==
    /\ pc = "done"
    /\ genArgs.rootNote = <<"D", "#">> /\ genArgs.scaleType = "harmonic"
    /\ "scale" \in DOMAIN diag
    /\ diag.scale[1] = <<"E", "b">>
    /\ diag.scale[7] = <<"D">>

\* C9: in every successful result a cell is classed root exactly when its name
\* parses to the root's pitch class, every root cell is in-scale, and root /
\* other scale tone / non-scale partition the cells; for root C harmonic on an
\* open E string fret 3 is G, in-scale, not root, and fret 8 is C, in-scale, root.
C9_RootCellsAreInScale ==
    (pc = "done" /\ "fretboard" \in DOMAIN diag) =>
        /\ diag.rootSemitone = PitchClass(genArgs.rootNote)
        /\ LET rootPC == PitchClass(genArgs.rootNote) IN
           \A s \in 1..Len(diag.fretboard) : \A f \in 1..12 :
              LET cell == diag.fretboard[s][f]
                  class == circleClass(cell, diag)
                  cellPC == PitchClass(cell[1])
              IN  /\ class = "note-root" <=> cellPC = rootPC
                  /\ class = "note-root" => cell[2]
                  /\ class = "note-scale" <=> (cell[2] /\ cellPC # rootPC)
                  /\ class = "note-other" <=> ~cell[2]
        /\ (genArgs.rootNote = <<"C">> /\ genArgs.scaleType = "harmonic"
                /\ genArgs.tuningArray[1] = <<"E">>) =>
              /\ diag.fretboard[1][3] = <<<<"G">>, TRUE>>
              /\ circleClass(diag.fretboard[1][3], diag) = "note-scale"
              /\ diag.fretboard[1][8] = <<<<"C">>, TRUE>>
              /\ circleClass(diag.fretboard[1][8], diag) = "note-root"

\* Root C harmonic on the standard six strings: fret 8 of the low E is the root.
C9_Witness ==
    /\ pc = "done"
    /\ genArgs = generateArgs(6, standardTunings[6], <<"C">>, "harmonic")
    /\ "fretboard" \in DOMAIN diag
    /\ circleClass(diag.fretboard[1][8], diag) = "note-root"
    /\ circleClass(diag.fretboard[1][3], diag) = "note-scale"
    /\ circleClass(diag.fretboard[1][2], diag) = "note-other"

\* The intervals of the two minor scales above the root, in semitones.
NaturalMinorIntervals == <<0, 2, 3, 5, 7, 8, 10>>
HarmonicMinorIntervals == <<0, 2, 3, 5, 7, 8, 11>>

\* C11: for every root pitch class r in 0..11 the scale tables agree with the
\* minor-scale interval patterns: entry i of the natural table at r parses to
\* (r + [0,2,3,5,7,8,10][i]) mod 12 and entry i of the harmonic table at r to
\* (r + [0,2,3,5,7,8,11][i]) mod 12; the first entry parses to r, so the root
\* pitch class of a result is always one of its scale pitch classes.
C11_TablesFollowIntervals ==
    (pc = "done" /\ "scale" \in DOMAIN diag) =>
        LET r == PitchClass(genArgs.rootNote)
            intervals == IF genArgs.scaleType = "natural"
                         THEN NaturalMinorIntervals ELSE HarmonicMinorIntervals
        IN  /\ r \in 0..11
            /\ Len(diag.scale) = 7
            /\ \A i \in 1..7 :
                  /\ PitchClass(diag.scale[i]) = (r + intervals[i]) % 12
                  /\ diag.scaleSemitones[i] = (r + intervals[i]) % 12
            /\ PitchClass(diag.scale[1]) = r
            /\ diag.rootSemitone = r
            /\ \E i \in 1..Len(diag.scaleSemitones) :
                  diag.scaleSemitones[i] = diag.rootSemitone

\* The harmonic scale of G# has been returned from the A flat entry: its
\* seventh degree G is 11 semitones above the root 8, wrapped to 7.
C11_Witness ==
    /\ pc = "done"
    /\ genArgs.rootNote = <<"G", "#">> /\ genArgs.scaleType = "harmonic"
    /\ "scale" \in DOMAIN diag
    /\ diag.rootSemitone = 8
    /\ diag.scale[1] = <<"A", "b">>
    /\ diag.scale[7] = <<"G">>
    /\ diag.scaleSemitones = <<8, 10, 11, 1, 3, 4, 7>>

(***************************************************************************)
(* Properties of the App component, under Spec and SpecRegistered.         *)
(***************************************************************************)
\* C8: the tuning length equals the string count whenever generateScaleDiagram
\* is invoked: after any sequence of UI events the tuning passed to it has as
\* many entries as the string count passed to it, and a produced fretboard has
\* one row per tuning entry.
C8_TuningLengthIsStringCount ==
    lastCall # nullObject =>
        /\ Len(lastCall.tuningArray) = lastCall.numStrings
        /\ result # nullObject => Len(result.fretboard) = Len(lastCall.tuningArray)

\* C10: whenever a result is displayed, for every row idx of the displayed
\* fretboard the label tuningNotes[idx] exists and is the open note the row was
\* computed from: cell f of the row has pitch class (pitch class of label + f) mod 12.
C10_RowLabelIsOpenNote ==
    result # nullObject =>
        \A idx \in 1..Len(result.fretboard) :
            /\ idx <= Len(tuningNotes)
            /\ \A f \in 1..12 :
                  parseNoteToSemitone(result.fretboard[idx][f][1])
                      = (parseNoteToSemitone(tuningNotes[idx]) + f) % 12

====
